---- MODULE Spec2Model ----
\* Model of the peephole optimizer of src/son/optimizer.rs: the type lattice,
\* the transfer function eval_type and the rewrite step peephole, over a heap
\* of shared nodes linked by def and user edges.
EXTENDS Integers, Sequences, FiniteSets, TLC

VARIABLES heap, nodeid_counter, replaced, call, pre, overflow_checks, expr,
          stack

vars == <<heap, nodeid_counter, replaced, call, pre, overflow_checks, expr,
          stack>>

\* ------------------------------------------------------------------ bounds
\* Width of the Int payload in the model (i128 in the source, scaled down).
IntBits == 4
\* Largest number of consumers the builder gives the node under Spec.
MaxUsers == 1
\* Largest number of nodes the parser constructs under SpecEager.
MaxParsed == 5

RECURSIVE Pow2(_)
Pow2(k) == IF k = 0 THEN 1 ELSE 2 * Pow2(k - 1)

MinInt == -Pow2(IntBits - 1)
MaxInt == Pow2(IntBits - 1) - 1
InRange(v) == MinInt <= v /\ v <= MaxInt

\* Literals the builder draws from.
Lits == {MinInt, -7, -1, 0, 2}
EagerLits == {-7, 0, 2, MaxInt}

\* ------------------------------------------------------------------ types
Bot == [tag |-> "Bot", v |-> 0]
Top == [tag |-> "Top", v |-> 0]
Simple == [tag |-> "Simple", v |-> 0]
Int_(x) == [tag |-> "Int", v |-> x]
\* Not a Type: the marker of a panic inside eval_type.
Panic == [tag |-> "Panic", v |-> 0]

is_constant(t) ==
    CASE t.tag = "Bot" -> "false"
      [] t.tag = "Top" -> "true"
      [] t.tag = "Simple" -> "todo"
      [] t.tag = "Int" -> "true"

ArithOps == {"Add", "Sub", "Mul", "Div"}

\* ------------------------------------------------------------- arithmetic
Abs(x) == IF x < 0 THEN -x ELSE x
Wrap(v) == ((v - MinInt) % Pow2(IntBits)) + MinInt

\* x+y, x-y, x*y of Rust: a panic with overflow checks, two's complement
\* wrapping without them.
arith_result(v, checks) ==
    IF InRange(v) THEN Int_(v) ELSE IF checks THEN Panic ELSE Int_(Wrap(v))

int_div_floor(x, y) ==
    IF y = 0 \/ (x = MinInt /\ y = -1) THEN Panic ELSE Int_(x \div y)

int_div_wrapping(x, y) ==
    IF y = 0 THEN Panic
    ELSE IF x = MinInt /\ y = -1 THEN Int_(MinInt)
    ELSE IF (x < 0) = (y < 0) THEN Int_(Abs(x) \div Abs(y))
    ELSE Int_(-(Abs(x) \div Abs(y)))

\* x/y of Rust: panics on a zero divisor and on MIN / -1 in every build,
\* truncates toward zero otherwise.
int_div(x, y) ==
    IF y = 0 \/ (x = MinInt /\ y = -1) THEN Panic
    ELSE IF (x < 0) = (y < 0) THEN Int_(Abs(x) \div Abs(y))
    ELSE Int_(-(Abs(x) \div Abs(y)))

\* ------------------------------------------------------------------ nodes
StartAddr == 1

new_constant(counter, opcode, typ) ==
    [node |-> [id |-> counter, opcode |-> opcode, typ |-> typ,
               defs |-> <<>>, users |-> {}],
     counter |-> counter + 1]

\* node.add_def(def): def joins node's operands, node joins def's consumers.
add_def(h, node, def) ==
    [a \in DOMAIN h |->
        IF a = node /\ a = def
          THEN [h[a] EXCEPT !.defs = Append(@, def), !.users = @ \cup {node}]
        ELSE IF a = node THEN [h[a] EXCEPT !.defs = Append(@, def)]
        ELSE IF a = def THEN [h[a] EXCEPT !.users = @ \cup {node}]
        ELSE h[a]]

Elems(s) == {s[i] : i \in DOMAIN s}

\* ------------------------------------------------------ transfer function
eval_type_optimistic(h, n, checks) ==
    LET op == h[n].opcode IN
    IF op \in {"Start", "Ret"} THEN Bot
    ELSE IF op = "Con" THEN h[n].typ
    ELSE LET x_type == h[h[n].defs[1]].typ
             y_type == h[h[n].defs[2]].typ
         IN IF x_type.tag = "Int" /\ y_type.tag = "Int"
              THEN CASE op = "Add" -> arith_result(x_type.v + y_type.v, checks)
                     [] op = "Sub" -> arith_result(x_type.v - y_type.v, checks)
                     [] op = "Mul" -> arith_result(x_type.v * y_type.v, checks)
                     [] op = "Div" -> int_div(x_type.v, y_type.v)
              ELSE Top

eval_type_ret_value(h, n, checks) ==
    LET op == h[n].opcode IN
    IF op = "Start" THEN Bot
    ELSE IF op = "Ret" THEN h[h[n].defs[2]].typ
    ELSE IF op = "Con" THEN h[n].typ
    ELSE LET x_type == h[h[n].defs[1]].typ
             y_type == h[h[n].defs[2]].typ
         IN IF x_type.tag = "Int" /\ y_type.tag = "Int"
              THEN CASE op = "Add" -> arith_result(x_type.v + y_type.v, checks)
                     [] op = "Sub" -> arith_result(x_type.v - y_type.v, checks)
                     [] op = "Mul" -> arith_result(x_type.v * y_type.v, checks)
                     [] op = "Div" -> int_div(x_type.v, y_type.v)
              ELSE Bot

eval_type(h, n, checks) ==
    LET op == h[n].opcode IN
    IF op \in {"Start", "Ret"} THEN Bot
    ELSE IF op = "Con" THEN h[n].typ
    ELSE LET x_type == h[h[n].defs[1]].typ
             y_type == h[h[n].defs[2]].typ
         IN IF x_type.tag = "Int" /\ y_type.tag = "Int"
              THEN CASE op = "Add" -> arith_result(x_type.v + y_type.v, checks)
                     [] op = "Sub" -> arith_result(x_type.v - y_type.v, checks)
                     [] op = "Mul" -> arith_result(x_type.v * y_type.v, checks)
                     [] op = "Div" -> int_div(x_type.v, y_type.v)
              ELSE Bot

\* ---------------------------------------------------------------- rewrite
\* The match of peephole: TRUE when the arm that builds a Con is taken.
match_fold_any_constant(opcode, constant) == constant

match_fold(opcode, constant) ==
    IF (opcode = "Con" /\ constant) \/ ~constant THEN FALSE ELSE TRUE

\* The folding arm: a new Con carrying the node's type, with start as its def.
fold_no_attach(h, counter, n, start) ==
    LET made == new_constant(counter, "Con", h[n].typ)
    IN [heap |-> Append(h, made.node), counter |-> made.counter,
        con |-> Len(h) + 1]

fold_top(h, counter, n, start) ==
    LET made == new_constant(counter, "Con", Top)
        con == Len(h) + 1
    IN [heap |-> add_def(Append(h, made.node), con, start),
        counter |-> made.counter, con |-> con]

fold(h, counter, n, start) ==
    LET made == new_constant(counter, "Con", h[n].typ)
        con == Len(h) + 1
    IN [heap |-> add_def(Append(h, made.node), con, start),
        counter |-> made.counter, con |-> con]

peephole(h, counter, n, start, checks) ==
    LET t == eval_type(h, n, checks) IN
    IF t = Panic
      THEN [outcome |-> "abort", heap |-> h, counter |-> counter, ret |-> 0]
    ELSE
      LET h1 == [h EXCEPT ![n].typ = t]
          c == is_constant(t)
      IN IF c = "todo"
           THEN [outcome |-> "abort", heap |-> h1, counter |-> counter, ret |-> 0]
         ELSE IF match_fold(h1[n].opcode, c = "true")
           THEN LET f == fold(h1, counter, n, start)
                IN [outcome |-> "fold", heap |-> f.heap, counter |-> f.counter,
                    ret |-> f.con]
         ELSE [outcome |-> "same", heap |-> h1, counter |-> counter, ret |-> n]

\* ------------------------------------------------------------------ state
NoCall == [node |-> 0, outcome |-> "none", ret |-> 0]
NoPre == [heap |-> <<>>, counter |-> 0]

Addrs == DOMAIN heap
Dropped == {p[1] : p \in replaced}
Live == Addrs \ Dropped
Aborted == call.outcome = "abort"

StartOnly ==
    <<[id |-> 0, opcode |-> "Start", typ |-> Bot, defs |-> <<>>, users |-> {}]>>

\* The builder's construction of a node over the given operands: a fresh id,
\* then one def edge (and its user edge) per operand.
Construct(g, opcode, typ, operands) ==
    LET made == new_constant(g.counter, opcode, typ)
        n == Len(g.heap) + 1
        h0 == Append(g.heap, made.node)
        h1 == add_def(h0, n, operands[1])
    IN [heap |-> IF Len(operands) = 1 THEN h1 ELSE add_def(h1, n, operands[2]),
        counter |-> made.counter]

ConTypes == {Int_(x) : x \in Lits} \cup {Top, Simple}
InitTypes == {Bot, Top}
UserKinds == {"Ret", "Sub"}

\* The graphs peephole is called on: Start, two Con operands x and y, a node
\* over operands among them, and consumers of that node.
XAddr == 2
YAddr == 3
NodeAddr == 4

RECURSIVE AddUsers(_, _, _)
AddUsers(g, kinds, t0) ==
    IF kinds = <<>> THEN g
    ELSE AddUsers(
           IF Head(kinds) = "Ret"
             THEN Construct(g, "Ret", t0, <<StartAddr, NodeAddr>>)
             ELSE Construct(g, "Sub", t0, <<NodeAddr, XAddr>>),
           Tail(kinds), t0)

UserSeqs == UNION {[1..k -> UserKinds] : k \in 0..MaxUsers}

BuiltGraph(tx, ty, opcode, a, b, t0, kinds) ==
    LET g1 == Construct([heap |-> StartOnly, counter |-> 1], "Con", tx,
                        <<StartAddr>>)
        g2 == Construct(g1, "Con", ty, <<StartAddr>>)
        g3 == Construct(g2, opcode, t0,
                        IF opcode = "Ret" THEN <<StartAddr, b>> ELSE <<a, b>>)
    IN AddUsers(g3, kinds, t0)

Init ==
    /\ \E tx \in ConTypes, ty \in ConTypes, opcode \in ArithOps \cup {"Ret"},
          a \in StartAddr..YAddr, b \in StartAddr..YAddr, t0 \in InitTypes,
          kinds \in UserSeqs :
          /\ opcode = "Ret" => a = StartAddr
          /\ LET g == BuiltGraph(tx, ty, opcode, a, b, t0, kinds)
             IN /\ heap = g.heap
                /\ nodeid_counter = g.counter
    /\ replaced = {}
    /\ call = NoCall
    /\ pre = NoPre
    /\ overflow_checks \in BOOLEAN
    /\ expr = <<>>
    /\ stack = <<>>

Peephole(n) ==
    /\ ~Aborted
    /\ LET r == peephole(heap, nodeid_counter, n, StartAddr, overflow_checks)
       IN /\ heap' = r.heap
          /\ nodeid_counter' = r.counter
          /\ call' = [node |-> n, outcome |-> r.outcome, ret |-> r.ret]
          /\ replaced' = IF r.outcome = "fold"
                           THEN replaced \cup {<<n, r.ret>>} ELSE replaced
    /\ pre' = [heap |-> heap, counter |-> nodeid_counter]
    /\ UNCHANGED <<overflow_checks, expr, stack>>

Next == \E n \in Live : Peephole(n)

Spec == Init /\ [][Next]_vars

\* ------------------------------------------------- eager construction
\* The parser builds an expression leaves first and calls peephole on each
\* node right after constructing it, over the nodes peephole returned for
\* its children, which it keeps on a stack; expr records, per node, the
\* expression the node stands for.
NoExpr == <<>>
Parsed == Len(heap) - Cardinality(replaced) - 1

InitEager ==
    /\ heap = StartOnly
    /\ nodeid_counter = 1
    /\ replaced = {}
    /\ call = NoCall
    /\ pre = NoPre
    /\ overflow_checks \in BOOLEAN
    /\ expr = <<NoExpr>>
    /\ stack = <<>>

ParseStep(opcode, typ, operands, e, rest) ==
    /\ ~Aborted
    /\ Parsed < MaxParsed
    /\ LET g == Construct([heap |-> heap, counter |-> nodeid_counter],
                          opcode, typ, operands)
           n == Len(heap) + 1
           r == peephole(g.heap, g.counter, n, StartAddr, overflow_checks)
       IN /\ heap' = r.heap
          /\ nodeid_counter' = r.counter
          /\ call' = [node |-> n, outcome |-> r.outcome, ret |-> r.ret]
          /\ replaced' = IF r.outcome = "fold"
                           THEN replaced \cup {<<n, r.ret>>} ELSE replaced
          /\ pre' = g
          /\ expr' = IF r.outcome = "fold"
                       THEN Append(Append(expr, e), e) ELSE Append(expr, e)
          /\ stack' = IF r.outcome = "abort" \/ opcode = "Ret" THEN rest
                        ELSE Append(rest, r.ret)
    /\ UNCHANGED overflow_checks

Pop(k) == SubSeq(stack, 1, Len(stack) - k)
Peek(k) == stack[Len(stack) - k]

ParseLit(v) == ParseStep("Con", Int_(v), <<StartAddr>>, <<"Lit", v>>, stack)

ParseArith(op) ==
    /\ Len(stack) >= 2
    /\ ParseStep(op, Bot, <<Peek(1), Peek(0)>>,
                 <<op, expr[Peek(1)], expr[Peek(0)]>>, Pop(2))

ParseRet ==
    /\ Len(stack) = 1
    /\ ParseStep("Ret", Bot, <<StartAddr, Peek(0)>>, NoExpr, Pop(1))

NextEager ==
    \/ \E v \in EagerLits : ParseLit(v)
    \/ \E op \in ArithOps : ParseArith(op)
    \/ ParseRet

SpecEager == InitEager /\ [][NextEager]_vars

\* ----------------------------------------------------------- properties
\* The last peephole call: its input node as it was before the call, and the
\* types its two operands had then.
Called == call.outcome # "none"
PreNode == pre.heap[call.node]
PreTyp(i) == pre.heap[PreNode.defs[i]].typ
ArithCall == Called /\ PreNode.opcode \in ArithOps
IntOperands == PreTyp(1).tag = "Int" /\ PreTyp(2).tag = "Int"
FoldCons == {p[2] : p \in replaced}

\* The quotient that truncates toward zero, by its defining property: the
\* remainder is smaller than the divisor and has the sign of the dividend.
TruncQuot(x, y) ==
    CHOOSE q \in -Abs(x)..Abs(x) :
        LET r == x - q * y
        IN Abs(r) < Abs(y) /\ (r = 0 \/ (r < 0) = (x < 0))

DivDefined(x, y) == y # 0 /\ ~(x = MinInt /\ y = -1)

Exact(op, x, y) ==
    CASE op = "Add" -> x + y
      [] op = "Sub" -> x - y
      [] op = "Mul" -> x * y
      [] op = "Div" -> TruncQuot(x, y)

Overflows(op, x, y) == op # "Div" /\ ~InRange(Exact(op, x, y))
DivFaults(op, x, y) == op = "Div" /\ ~DivDefined(x, y)

\* C1: peephole on op(Con(x), Con(y)) with the result in range (and y # 0
\* for Div) returns a new node, distinct from the input, whose opcode is Con
\* and whose type is Int of x+y, x-y, x*y or of x/y truncated toward zero.
C1_FoldSound ==
    (ArithCall /\ IntOperands) =>
        LET op == PreNode.opcode
            x == PreTyp(1).v
            y == PreTyp(2).v
        IN (~DivFaults(op, x, y) /\ ~Overflows(op, x, y)) =>
              /\ call.outcome = "fold"
              /\ call.ret # call.node
              /\ call.ret \notin DOMAIN pre.heap
              /\ heap[call.ret].opcode = "Con"
              /\ heap[call.ret].typ = Int_(Exact(op, x, y))

C1_Witness ==
    /\ ArithCall /\ IntOperands
    /\ PreNode.opcode = "Div" /\ PreTyp(1).v = -7 /\ PreTyp(2).v = 2
    /\ call.outcome = "fold"
    /\ heap[call.ret].typ = Int_(-3)

\* C2: an arithmetic node with an operand whose type is not Int gets type
\* Bot, is not folded, and is returned itself; no node is created.
C2_Conservative ==
    (ArithCall /\ ~IntOperands) =>
        /\ call.outcome = "same"
        /\ call.ret = call.node
        /\ heap[call.node].typ = Bot
        /\ Len(heap) = Len(pre.heap)
        /\ nodeid_counter = pre.counter
        /\ \A m \in DOMAIN heap : heap[m].opcode = pre.heap[m].opcode

C2_Witness ==
    /\ ArithCall
    /\ PreNode.opcode = "Add"
    /\ PreTyp(1) = Int_(2)
    /\ PreNode.defs[2] = StartAddr
    /\ PreNode.typ = Top
    /\ call.outcome = "same"
    /\ heap[call.node].typ = Bot

\* C3: peephole on a Con whose type is Int or Top returns that node with the
\* whole heap (ids, types, defs, users, start's edges) and the id counter
\* unchanged; so every further call on the result of a fold returns it again.
C3_ConIdempotent ==
    (Called /\ PreNode.opcode = "Con" /\ PreNode.typ.tag \in {"Int", "Top"}) =>
        /\ call.outcome = "same"
        /\ call.ret = call.node
        /\ heap = pre.heap
        /\ nodeid_counter = pre.counter

C3_Witness ==
    /\ Called
    /\ call.node \in FoldCons
    /\ call.outcome = "same"
    /\ call.ret = call.node

C5_NoDanglingEdges ==
    call.outcome = "fold" =>
        /\ \A m \in DOMAIN heap : call.node \notin Elems(heap[m].defs)
        /\ \A m \in DOMAIN pre.heap : \A i \in DOMAIN pre.heap[m].defs :
              pre.heap[m].defs[i] = call.node => heap[m].defs[i] = call.ret
        /\ \A a \in Elems(PreNode.defs) : call.node \notin heap[a].users

\* The def and user edges are mutual inverses over the given nodes.
Duality(S) ==
    \A a \in S, b \in S : (a \in Elems(heap[b].defs)) <=> (b \in heap[a].users)

\* C6: in every reachable state the edges of the live nodes are dual, and no
\* live node's defs or users refers to a discarded node.
C6_EdgeDuality ==
    /\ Duality(Live)
    /\ \A m \in Live : Elems(heap[m].defs) \cap Dropped = {}
    /\ \A m \in Live : heap[m].users \cap Dropped = {}

C9_ControlNeverFolded ==
    (Called /\ PreNode.opcode \in {"Start", "Ret"}) =>
        /\ call.outcome = "same"
        /\ call.ret = call.node
        /\ heap[call.node].typ = Bot
        /\ heap[call.node].opcode = PreNode.opcode
        /\ heap[call.node].defs = PreNode.defs
        /\ Len(heap) = Len(pre.heap)
        /\ PreNode.opcode = "Ret" =>
              heap[heap[call.node].defs[1]].opcode = "Start"

C9_Witness ==
    /\ Called
    /\ PreNode.opcode = "Ret"
    /\ PreNode.typ = Top
    /\ PreTyp(2).tag = "Int"
    /\ call.outcome = "same"
    /\ heap[call.node].typ = Bot

\* C10: a fold takes exactly one id from the counter, an id no existing node
\* has, and the new Con carries the type just evaluated for the input node,
\* which is an Int; a call that does not fold takes no id and changes
\* nothing but the input node's typ.
C10_IdsAndPayload ==
    /\ call.outcome = "fold" =>
          /\ nodeid_counter = pre.counter + 1
          /\ heap[call.ret].id = pre.counter
          /\ \A m \in DOMAIN pre.heap : pre.heap[m].id # heap[call.ret].id
          /\ heap[call.ret].typ = heap[call.node].typ
          /\ heap[call.ret].typ.tag = "Int"
    /\ call.outcome = "same" =>
          /\ nodeid_counter = pre.counter
          /\ heap = [pre.heap EXCEPT ![call.node].typ = heap[call.node].typ]

C10_Witness ==
    /\ call.outcome = "fold"
    /\ PreNode.opcode = "Mul"
    /\ Len(pre.heap) > NodeAddr
    /\ heap[call.ret].id = pre.counter
    /\ heap[call.ret].typ = Int_(-2)

\* ------------------------------------------------ properties, eager parse
\* The value of an expression, and whether every step of it is defined: no
\* division by zero and every intermediate result in range.
RECURSIVE EvalExpr(_)
EvalExpr(e) ==
    IF e[1] = "Lit" THEN [ok |-> InRange(e[2]), v |-> e[2]]
    ELSE LET l == EvalExpr(e[2])
             r == EvalExpr(e[3])
         IN IF ~l.ok \/ ~r.ok THEN [ok |-> FALSE, v |-> 0]
            ELSE IF DivFaults(e[1], l.v, r.v) \/ Overflows(e[1], l.v, r.v)
              THEN [ok |-> FALSE, v |-> 0]
            ELSE [ok |-> TRUE, v |-> Exact(e[1], l.v, r.v)]

RetCallKeepsRet ==
    (Called /\ PreNode.opcode = "Ret") =>
        /\ call.outcome = "same"
        /\ call.ret = call.node
        /\ heap[call.ret].opcode = "Ret"
        /\ heap[heap[call.ret].defs[1]].opcode = "Start"

\* C8 as stated: in an eager bottom-up parse every call on an arithmetic node
\* folds to a Con carrying the value of the whole expression, no arithmetic
\* node is among the returned nodes, and a Ret is returned unchanged.
C8_EveryCallFolds ==
    /\ ArithCall =>
          /\ call.outcome = "fold"
          /\ heap[call.ret].opcode = "Con"
          /\ EvalExpr(expr[call.ret]).ok
          /\ heap[call.ret].typ = Int_(EvalExpr(expr[call.ret]).v)
    /\ \A m \in Elems(stack) : heap[m].opcode \notin ArithOps
    /\ RetCallKeepsRet

\* C8: the same for an expression every step of which is defined (no division
\* by zero, no result out of range).
C8_DefinedExprFolds ==
    /\ (ArithCall /\ EvalExpr(expr[call.node]).ok) =>
          /\ call.outcome = "fold"
          /\ heap[call.ret].opcode = "Con"
          /\ heap[call.ret].typ = Int_(EvalExpr(expr[call.node]).v)
          /\ expr[call.ret] = expr[call.node]
    /\ \A m \in Elems(stack) : heap[m].opcode \notin ArithOps
    /\ RetCallKeepsRet

C8_Witness ==
    /\ ArithCall
    /\ call.outcome = "fold"
    /\ expr[call.node] =
          <<"Div", <<"Sub", <<"Lit", -7>>, <<"Lit", 0>>>>, <<"Lit", 2>>>>
    /\ heap[call.ret].typ = Int_(-3)

====
